---- MODULE Spec2Model ----
(***************************************************************************)
(* A model of burst-builder.js: the command-line load generator that opens *)
(* a seed page, authenticates, provisions TABS browser tabs in batches,    *)
(* waits for them to become ready, submits a prompt on every tab in        *)
(* batches and reports the success rate.                                   *)
(*                                                                         *)
(* Numbers that the script derives from --tabs are JavaScript Numbers and  *)
(* may be fractional (--tabs 2.5).  They are kept in fixed point with one  *)
(* binary digit: the integer n stands for n/2 ("halves").  Fx(k) is the    *)
(* whole number k.  Counts of pages and results are plain integers.        *)
(***************************************************************************)
EXTENDS Integers, Sequences, FiniteSets, TLC

\* ------------------------------------------------------------ constants

DEFAULT_TABS == 5
FALLBACK_TABS == 5
MAX_TABS == 55
BATCH_LIMIT == 10
PROMPT_BATCH_LIMIT == 15
maxWaitTime == 300000
pollInterval == 5000
authSettleTime == 2000
readyTimeout == 120000
readyPolling == 500

\* ------------------------------------------------------------ bounds

\* A requested tab count far above the cap.
HugeTabs == 1000
\* Only tabs with an index up to this one may deviate from the well-behaved page.
MaxFaultTab == 1

\* ------------------------------------------------------------ numbers

Fx(k) == 2 * k

Min(a, b) == IF b < a THEN b ELSE a

Max(a, b) == IF b > a THEN b ELSE a

\* Array.prototype.slice truncates a fractional index toward zero.
TruncFx(h) == h \div 2

\* ------------------------------------------------------------ --tabs

\* What minimist leaves in args.tabs: the option absent (the default applies),
\* a number, a bare flag (true), or a string that is not a number.
CmdAbsent == [kind |-> "absent", val |-> 0]

CmdNum(h) == [kind |-> "num", val |-> h]

CmdFlag == [kind |-> "bool", val |-> 0]

CmdText == [kind |-> "str", val |-> 0]

\* args.tabs after minimist applied `default: { tabs: 5 }`.
MinimistTabs(cmd) == IF cmd.kind = "absent" THEN CmdNum(Fx(DEFAULT_TABS)) ELSE cmd

\* Number(args.tabs): a number is itself, true is 1, a non-numeric string is NaN.
ToNumber(a) ==
  CASE a.kind = "num" -> [nan |-> FALSE, v |-> a.val]
    [] a.kind = "bool" -> [nan |-> FALSE, v |-> Fx(1)]
    [] OTHER -> [nan |-> TRUE, v |-> 0]

\* `x || 5`: NaN and 0 are falsy.
OrFallback(n) == IF n.nan \/ n.v = 0 THEN Fx(FALLBACK_TABS) ELSE n.v

\* The clamp without its upper limit.
ClampTabsUncapped(a) == Max(Fx(1), OrFallback(ToNumber(a)))

\* const TABS = Math.max(1, Math.min(Number(args.tabs) || 5, 55))
ClampTabs(a) == Max(Fx(1), Min(OrFallback(ToNumber(a)), Fx(MAX_TABS)))

\* ------------------------------------------------------------ pages

\* What checkAuthentication can observe on a page.
AuthObs == [login : BOOLEAN, indicator : BOOLEAN, builderUrl : BOOLEAN, throws : BOOLEAN]

GoodAuth == [login |-> FALSE, indicator |-> TRUE, builderUrl |-> TRUE, throws |-> FALSE]

\* checkAuthentication looking for the authenticated indicators before the login
\* buttons.
checkAuthenticationIndicatorsFirst(obs, headless) ==
  IF obs.throws
  THEN IF headless
       THEN [authenticated |-> TRUE, reason |-> "headless_error_assumption"]
       ELSE [authenticated |-> FALSE, reason |-> "error"]
  ELSE IF obs.indicator THEN [authenticated |-> TRUE, reason |-> "authenticated"]
  ELSE IF obs.login THEN [authenticated |-> FALSE, reason |-> "login_required"]
  ELSE IF obs.builderUrl THEN [authenticated |-> TRUE, reason |-> "on_builder_page"]
  ELSE IF headless THEN [authenticated |-> TRUE, reason |-> "headless_assumption"]
  ELSE [authenticated |-> FALSE, reason |-> "unknown"]

\* checkAuthentication(page, tabIndex)
checkAuthentication(obs, headless) ==
  IF obs.throws
  THEN IF headless
       THEN [authenticated |-> TRUE, reason |-> "headless_error_assumption"]
       ELSE [authenticated |-> FALSE, reason |-> "error"]
  ELSE IF obs.login THEN [authenticated |-> FALSE, reason |-> "login_required"]
  ELSE IF obs.indicator THEN [authenticated |-> TRUE, reason |-> "authenticated"]
  ELSE IF obs.builderUrl THEN [authenticated |-> TRUE, reason |-> "on_builder_page"]
  ELSE IF headless THEN [authenticated |-> TRUE, reason |-> "headless_assumption"]
  ELSE [authenticated |-> FALSE, reason |-> "unknown"]

\* The readiness predicates, named for what they look for.
READY_CHECKS == <<"app-shell", "navigation", "app-frame">>

\* What evaluating a readiness predicate in the page can give: an element
\* (truthy), null (falsy), or an exception.
CheckValues == {"true", "false", "throws"}

\* `checks.some(...)` with an exception of a predicate leaving the callback.
RECURSIVE SomeCheckNoCatch(_, _)
SomeCheckNoCatch(vals, k) ==
  IF k > Len(READY_CHECKS) THEN FALSE
  ELSE IF vals[k] = "true" THEN TRUE
  ELSE IF vals[k] = "throws" THEN FALSE
  ELSE SomeCheckNoCatch(vals, k + 1)

\* checks.some(fnStr => { try { return fn(); } catch { return false; } }) from the
\* k-th predicate on.
RECURSIVE SomeCheck(_, _)
SomeCheck(vals, k) ==
  IF k > Len(READY_CHECKS) THEN FALSE
  ELSE IF vals[k] = "true" THEN TRUE
  ELSE SomeCheck(vals, k + 1)

\* The values of the predicates at the n-th poll (from 0) of a page whose
\* predicates change once, at the poll `from`.
PollValues(shell, n) == IF n < shell.from THEN shell.before ELSE shell.after

\* The number of polls, readyPolling ms apart from time 0, made before
\* readyTimeout ms have passed.
PollCount == (readyTimeout + readyPolling - 1) \div readyPolling

NoPoll == -1

\* The polls lo .. hi-1 made one after the other: the first poll at which the
\* callback is truthy, NoPoll if it is truthy at none of them.
RECURSIVE FirstReadyPoll(_, _, _)
FirstReadyPoll(shell, lo, hi) ==
  IF hi <= lo THEN NoPoll
  ELSE IF hi = lo + 1
  THEN IF SomeCheck(PollValues(shell, lo), 1) THEN lo ELSE NoPoll
  ELSE LET mid == (lo + hi) \div 2
           first == FirstReadyPoll(shell, lo, mid)
       IN IF first # NoPoll THEN first ELSE FirstReadyPoll(shell, mid, hi)

\* p.waitForFunction(..., { timeout: 120_000, polling: 500 }): the callback is
\* evaluated every readyPolling ms until it is truthy or readyTimeout ms have passed.
WaitForReady(shell) ==
  LET n == FirstReadyPoll(shell, 0, PollCount)
  IN IF n = NoPoll THEN [ready |-> FALSE, poll |-> PollCount]
     ELSE [ready |-> TRUE, poll |-> n]

\* How a page's readiness callback ends: "load_timeout" and "shell_timeout"
\* reject it, "ui_timeout" is the guarded wait timing out, "ready" no timeout.
Readiness(tab) ==
  IF tab.ready = "load_timeout" THEN "load_timeout"
  ELSE IF ~WaitForReady(tab.shell).ready THEN "shell_timeout"
  ELSE tab.ready

\* The model menu's items, and `:has-text(t)`: a case-insensitive substring match.
MenuItems == {"GPT-5 Mini", "GPT-5", "Claude Sonnet 4", "Grok Code Fast", "Auto"}

HasText(item, t) == item = t \/ (item = "GPT-5 Mini" /\ t = "GPT-5")

\* The switch on `model` in selectModel: the text of the menu item to look for.
ModelSelector(model) ==
  CASE model = "gpt-5-mini" -> "GPT-5 Mini"
    [] model = "gpt-5" -> "GPT-5"
    [] model = "claude-sonnet-4" -> "Claude Sonnet 4"
    [] model = "grok-code-fast" -> "Grok Code Fast"
    [] model = "auto" -> "Auto"
    [] OTHER -> "GPT-5 Mini"

Act(op, el, item) == [op |-> op, el |-> el, item |-> item]

\* locator(sel).first(): the first menu item, in document order, that matches.
FirstMatch(menu, t) ==
  LET hits == {k \in 1..Len(menu) : HasText(menu[k], t)}
  IN IF hits = {} THEN "" ELSE menu[CHOOSE k \in hits : \A m \in hits : k <= m]

\* The selectors tried, in this order, for the model dropdown button.
dropdownSelectors ==
  <<"button[title=\"Select AI model\"]",
    "button:has-text(\"Sonnet\")",
    "button:has(svg.tabler-icon-chevron-down)",
    "button[type=\"button\"]:has(span:has-text(\"Sonnet\"))",
    "button:has(span:has(svg))">>

\* What looking a selector up can give: a visible element, none or a hidden
\* one, or an exception.
LookupResults == {"visible", "hidden", "throws"}

\* The loop over the selectors with an exception ending the search.
RECURSIVE FindModelDropdownNoCatch(_, _)
FindModelDropdownNoCatch(lookups, k) ==
  IF k > Len(dropdownSelectors) THEN 0
  ELSE IF lookups[k] = "visible" THEN k
  ELSE IF lookups[k] = "throws" THEN 0
  ELSE FindModelDropdownNoCatch(lookups, k + 1)

\* `for (const selector of dropdownSelectors)` from the k-th selector on: the
\* first selector whose element is visible ends the loop, an exception is caught
\* and the loop continues; 0 when the loop ends with modelDropdown still null.
RECURSIVE FindModelDropdown(_, _)
FindModelDropdown(lookups, k) ==
  IF k > Len(dropdownSelectors) THEN 0
  ELSE IF lookups[k] = "visible" THEN k
  ELSE FindModelDropdown(lookups, k + 1)

\* selectModel clicking the dropdown button a second time, to close the menu,
\* when the option is not found.
selectModelReopens(dom, model) ==
  LET found == FindModelDropdown(dom.dropdown, 1)
  IN IF found = 0 \/ dom.modelThrows = "dropdown"
     THEN [ok |-> FALSE, acts |-> <<>>]
     ELSE LET opened == <<Act("click", "modelDropdown", dropdownSelectors[found])>>
              option == FirstMatch(dom.menu, ModelSelector(model))
          IN IF option = "" \/ dom.modelThrows = "option"
             THEN [ok |-> FALSE, acts |-> opened \o opened]
             ELSE [ok |-> TRUE, acts |-> opened \o <<Act("click", "modelOption", option)>>]

\* selectModel(page, tabIndex, model): never throws; returns whether the option was
\* clicked, with the elements it acted on.
selectModel(dom, model) ==
  LET found == FindModelDropdown(dom.dropdown, 1)
  IN IF found = 0 \/ dom.modelThrows = "dropdown"
     THEN [ok |-> FALSE, acts |-> <<>>]
     ELSE LET opened == <<Act("click", "modelDropdown", dropdownSelectors[found])>>
              option == FirstMatch(dom.menu, ModelSelector(model))
          IN IF option = "" \/ dom.modelThrows = "option"
             THEN [ok |-> FALSE, acts |-> opened]
             ELSE [ok |-> TRUE, acts |-> opened \o <<Act("click", "modelOption", option)>>]

\* The try block returning true after typing when the send button cannot be
\* clicked, the Enter key press left out.
MainPathSkipsEnter(dom) ==
  IF ~dom.prompt \/ dom.throwsAt = "focus"
  THEN [returned |-> FALSE, acts |-> <<>>]
  ELSE LET focused == <<Act("click", "promptInput", "")>>
           typed == focused \o <<Act("type", "promptInput", "")>>
       IN IF dom.throwsAt = "type" THEN [returned |-> FALSE, acts |-> focused]
          ELSE IF dom.throwsAt = "submit" THEN [returned |-> FALSE, acts |-> typed]
          ELSE IF dom.send = "disabled_empty" THEN [returned |-> FALSE, acts |-> typed]
          ELSE IF dom.send = "enabled"
          THEN [returned |-> TRUE, acts |-> typed \o <<Act("click", "sendButton", "")>>]
          ELSE [returned |-> TRUE, acts |-> typed]

\* The try block typing the text before the click that focuses the element.
MainPathTypesFirst(dom) ==
  IF ~dom.prompt \/ dom.throwsAt = "type"
  THEN [returned |-> FALSE, acts |-> <<>>]
  ELSE LET typed == <<Act("type", "promptInput", "")>>
           focused == typed \o <<Act("click", "promptInput", "")>>
       IN IF dom.throwsAt = "focus" THEN [returned |-> FALSE, acts |-> typed]
          ELSE IF dom.throwsAt = "submit" THEN [returned |-> FALSE, acts |-> focused]
          ELSE IF dom.send = "disabled_empty" THEN [returned |-> FALSE, acts |-> focused]
          ELSE IF dom.send = "enabled"
          THEN [returned |-> TRUE, acts |-> focused \o <<Act("click", "sendButton", "")>>]
          ELSE [returned |-> TRUE, acts |-> focused \o <<Act("press", "promptInput", "Enter")>>]

\* The try block submitting with the Enter key whatever the send button's state.
MainPathEnterFirst(dom) ==
  IF ~dom.prompt \/ dom.throwsAt = "focus"
  THEN [returned |-> FALSE, acts |-> <<>>]
  ELSE LET focused == <<Act("click", "promptInput", "")>>
           typed == focused \o <<Act("type", "promptInput", "")>>
       IN IF dom.throwsAt = "type" THEN [returned |-> FALSE, acts |-> focused]
          ELSE IF dom.throwsAt = "submit" THEN [returned |-> FALSE, acts |-> typed]
          ELSE [returned |-> TRUE, acts |-> typed \o <<Act("press", "promptInput", "Enter")>>]

\* The try block pressing Enter after the click on the send button as well.
MainPathClicksThenEnters(dom) ==
  IF ~dom.prompt \/ dom.throwsAt = "focus"
  THEN [returned |-> FALSE, acts |-> <<>>]
  ELSE LET focused == <<Act("click", "promptInput", "")>>
           typed == focused \o <<Act("type", "promptInput", "")>>
           enter == <<Act("press", "promptInput", "Enter")>>
       IN IF dom.throwsAt = "type" THEN [returned |-> FALSE, acts |-> focused]
          ELSE IF dom.throwsAt = "submit" THEN [returned |-> FALSE, acts |-> typed]
          ELSE IF dom.send = "disabled_empty" THEN [returned |-> FALSE, acts |-> typed]
          ELSE IF dom.send = "enabled"
          THEN [returned |-> TRUE,
                acts |-> typed \o <<Act("click", "sendButton", "")>> \o enter]
          ELSE [returned |-> TRUE, acts |-> typed \o enter]

\* The try block of triggerOnPage after selectModel: `returned` when it ran to a
\* `return true`, otherwise control falls through to the override fallback. The
\* send button is "enabled", "hidden", "disabled" (getAttribute('disabled') gives a
\* non-empty string) or "disabled_empty" (it gives '', as for <button disabled>:
\* `!isDisabled` is true and the click waits in vain for the button to be enabled).
MainPath(dom) ==
  IF ~dom.prompt \/ dom.throwsAt = "focus"
  THEN [returned |-> FALSE, acts |-> <<>>]
  ELSE LET focused == <<Act("click", "promptInput", "")>>
           typed == focused \o <<Act("type", "promptInput", "")>>
       IN IF dom.throwsAt = "type" THEN [returned |-> FALSE, acts |-> focused]
          ELSE IF dom.throwsAt = "submit" THEN [returned |-> FALSE, acts |-> typed]
          ELSE IF dom.send = "disabled_empty" THEN [returned |-> FALSE, acts |-> typed]
          ELSE IF dom.send = "enabled"
          THEN [returned |-> TRUE, acts |-> typed \o <<Act("click", "sendButton", "")>>]
          ELSE [returned |-> TRUE, acts |-> typed \o <<Act("press", "promptInput", "Enter")>>]

\* The PROMPT_SELECTOR_OVERRIDE fallback of triggerOnPage.
OverridePath(dom, override) ==
  IF override /\ dom.override \in {"visible", "decoy"}
  THEN [returned |-> TRUE, acts |-> <<Act("click", "override", "")>>]
  ELSE [returned |-> FALSE, acts |-> <<>>]

\* triggerOnPage using the override selector before the main prompt interface.
triggerOnPageOverrideFirst(dom, override, model) ==
  LET sm == selectModel(dom, model)
      mp == MainPath(dom)
      ov == OverridePath(dom, override)
  IN IF ov.returned
     THEN [outcome |-> TRUE, via |-> "override", acts |-> sm.acts \o ov.acts]
     ELSE IF mp.returned
     THEN [outcome |-> TRUE, via |-> "main", acts |-> sm.acts \o mp.acts]
     ELSE [outcome |-> FALSE, via |-> "none", acts |-> sm.acts \o mp.acts]

\* triggerOnPage giving the tab up when selectModel reports failure.
triggerOnPageNeedsModel(dom, override, model) ==
  LET sm == selectModel(dom, model)
      mp == MainPath(dom)
  IN IF ~sm.ok THEN [outcome |-> FALSE, via |-> "none", acts |-> sm.acts]
     ELSE IF mp.returned
     THEN [outcome |-> TRUE, via |-> "main", acts |-> sm.acts \o mp.acts]
     ELSE [outcome |-> FALSE, via |-> "none", acts |-> sm.acts \o mp.acts]

\* triggerOnPage(p, idx): the boolean it resolves to and the elements it acted on.
triggerOnPage(dom, override, model) ==
  LET sm == selectModel(dom, model)
      mp == MainPath(dom)
      ov == OverridePath(dom, override)
  IN IF mp.returned
     THEN [outcome |-> TRUE, via |-> "main", acts |-> sm.acts \o mp.acts]
     ELSE IF ov.returned
     THEN [outcome |-> TRUE, via |-> "override", acts |-> sm.acts \o mp.acts \o ov.acts]
     ELSE [outcome |-> FALSE, via |-> "none", acts |-> sm.acts \o mp.acts]

\* ------------------------------------------------------------ environment

\* The page a tab shows once the application has loaded and the user is logged in.
GoodDom ==
  [dropdown |-> <<"visible", "hidden", "visible", "hidden", "visible">>,
   modelThrows |-> "none",
   menu |-> <<"GPT-5 Mini", "GPT-5", "Claude Sonnet 4", "Grok Code Fast", "Auto">>,
   prompt |-> TRUE, throwsAt |-> "none", send |-> "enabled", override |-> "absent"]

AllFalse == <<"false", "false", "false">>

\* A page on which the navigation and the application frame are there at once.
ReadyShell == [from |-> 0, before |-> AllFalse, after |-> <<"false", "true", "true">>]

\* A page on which no readiness predicate ever holds.
NeverReady == [from |-> 0, before |-> AllFalse, after |-> AllFalse]

\* The last poll of the READY_CHECKS wait that happens before its timeout.
LastReadyPoll == PollCount - 1

\* Pages whose predicates change at the first, second or last poll, or only when
\* the wait has timed out.
ShellTimelines ==
  [from : {0, 1, LastReadyPoll, LastReadyPoll + 1},
   before : {AllFalse, <<"throws", "false", "throws">>},
   after : [1..Len(READY_CHECKS) -> CheckValues]]

\* A tab as the script meets it: whether goto resolves, what the authentication
\* check sees, how the load and the guarded readiness wait end (`ready`), what the
\* READY_CHECKS polls see (`shell`), and the page triggerOnPage works on.
GoodTab ==
  [nav |-> TRUE, auth |-> GoodAuth, ready |-> "ready", shell |-> ReadyShell,
   dom |-> GoodDom]

NoPrompt == [GoodDom EXCEPT !.prompt = FALSE]

\* No selector finds a visible dropdown button.
NoDropdown == [k \in 1..Len(dropdownSelectors) |-> "hidden"]

\* Every outcome of looking up the dropdown selectors.
DropdownLookups == [1..Len(dropdownSelectors) -> LookupResults]

FaultDoms ==
  {[GoodDom EXCEPT !.dropdown = NoDropdown],
   [GoodDom EXCEPT !.modelThrows = "dropdown"],
   [GoodDom EXCEPT !.modelThrows = "option"],
   [GoodDom EXCEPT !.menu = <<"GPT-5", "Auto">>],
   [GoodDom EXCEPT !.send = "disabled"],
   [GoodDom EXCEPT !.send = "hidden"],
   [GoodDom EXCEPT !.send = "disabled_empty"],
   [GoodDom EXCEPT !.override = "visible"],
   NoPrompt,
   [NoPrompt EXCEPT !.override = "hidden"],
   [NoPrompt EXCEPT !.override = "visible"],
   [NoPrompt EXCEPT !.override = "decoy"],
   [NoPrompt EXCEPT !.override = "throws"],
   [GoodDom EXCEPT !.throwsAt = "focus"],
   [GoodDom EXCEPT !.throwsAt = "type", !.override = "visible"],
   [GoodDom EXCEPT !.throwsAt = "submit"],
   [GoodDom EXCEPT !.throwsAt = "submit", !.send = "hidden", !.override = "visible"]}

FaultTabs ==
  {[GoodTab EXCEPT !.nav = FALSE],
   [GoodTab EXCEPT !.auth = [GoodAuth EXCEPT !.login = TRUE]],
   [GoodTab EXCEPT !.auth = [GoodAuth EXCEPT !.throws = TRUE]],
   [GoodTab EXCEPT !.ready = "load_timeout"],
   [GoodTab EXCEPT !.shell = NeverReady],
   [GoodTab EXCEPT !.ready = "ui_timeout"],
   [GoodTab EXCEPT !.ready = "ui_timeout", !.dom = NoPrompt]}
  \cup {[GoodTab EXCEPT !.dom = d] : d \in FaultDoms}

\* An environment: the tab at index `at` is of kind `kind`, the tab after it of
\* kind `next`, every other tab is well behaved.
Env(a, k) == [at |-> a, kind |-> k, next |-> GoodTab]

\* Every tab is well behaved except, possibly, the one at index `at`.
Envs ==
  {Env(0, GoodTab)}
  \cup {Env(a, k) : a \in 0..MaxFaultTab, k \in FaultTabs}

\* Three tabs: on the first the prompt element is found, the second has only a
\* decoy element, the third has no matching element at all.
ScenarioEnv ==
  [at |-> 1,
   kind |-> [GoodTab EXCEPT !.dom = [NoPrompt EXCEPT !.override = "decoy"]],
   next |-> [GoodTab EXCEPT !.dom = NoPrompt]]

\* Pages of a single tab that differ in one feature only, in all its values.
ProbeTabs ==
  {[GoodTab EXCEPT !.dom.dropdown = l] : l \in DropdownLookups}
  \cup {[GoodTab EXCEPT !.shell = sh] : sh \in ShellTimelines}

\* Requests explored in every environment and mode: 1 tab, 3 tabs, 2.5 tabs.
EnvCmds == {CmdFlag, CmdNum(Fx(3)), CmdNum(5)}

\* Requests that exercise the clamp, explored in the well-behaved environment.
PlainCmds == {CmdAbsent, CmdText, CmdNum(0), CmdNum(Fx(-3)), CmdNum(1), CmdNum(Fx(5))}

\* Requests that need several batches.
LargeCmds == {CmdNum(Fx(23)), CmdNum(Fx(HugeTabs))}

Input(c, h, o, e) ==
  [cmd |-> c, headless |-> h, override |-> o, model |-> "gpt-5-mini",
   seed |-> GoodAuth, env |-> e]

\* One well-behaved tab, the seed page showing `s` to the first authentication check.
SeedInput(h, s) == [Input(CmdFlag, h, FALSE, Env(0, GoodTab)) EXCEPT !.seed = s]

\* The --model values: the five the switch in selectModel knows, and another.
Models == {"gpt-5-mini", "gpt-5", "claude-sonnet-4", "grok-code-fast", "auto", "gpt-4o"}

\* The model menu with its five items in every order.
MenuOrders ==
  {m \in [1..Cardinality(MenuItems) -> MenuItems] :
     \A a, b \in DOMAIN m : a # b => m[a] # m[b]}

\* One tab, otherwise well behaved, asked for model `m` with the menu `menu`.
ModelInput(m, menu) ==
  [Input(CmdFlag, TRUE, FALSE, Env(0, [GoodTab EXCEPT !.dom.menu = menu]))
     EXCEPT !.model = m]

\* The runs explored.
Inputs ==
  {Input(c, h, o, e) : c \in EnvCmds, h \in BOOLEAN, o \in BOOLEAN, e \in Envs}
  \cup {Input(c, h, FALSE, Env(0, GoodTab)) : c \in PlainCmds, h \in BOOLEAN}
  \cup {Input(c, TRUE, TRUE, e) : c \in LargeCmds, e \in Envs}
  \cup {Input(CmdFlag, TRUE, FALSE, Env(0, k)) : k \in ProbeTabs}
  \cup {Input(CmdNum(Fx(3)), h, o, ScenarioEnv) : h \in BOOLEAN, o \in BOOLEAN}
  \cup {SeedInput(h, s) : h \in BOOLEAN, s \in AuthObs}
  \cup {ModelInput(m, menu) : m \in Models, menu \in MenuOrders}

\* ------------------------------------------------------------ state

VARIABLES
  argTabs,        \* the --tabs option as given on the command line
  HEADLESS,       \* Boolean(args.headless)
  OVERRIDE,       \* whether PROMPT_SELECTOR_OVERRIDE is a non-empty selector
  MODEL,          \* args.model, lower-cased
  seedAuth,       \* what the seed page shows to handleAuthentication's first check
  env,            \* the environment of this run
  pc,             \* where the main async function stands
  exitCode,       \* the process's exit code, NoExit while it runs
  abortCause,     \* why the run ended with exit code 1, "" otherwise
  seedNav,        \* how dash.goto ended: "pending", "ok" or "failed"
  authResult,     \* what handleAuthentication returned for the seed page
  authElapsed,    \* Date.now() - startTime in handleAuthentication's wait loop, at least
  seedStatus,     \* what the first checkAuthentication of the seed page returned
  recheck,        \* what the wait loop's latest checkAuthentication returned
  batchStart,     \* the batch loops' batchStart (halves)
  i,              \* the provisioning inner loop's i (halves)
  pages,          \* the pages array: the tabs pushed, by number
  navPending,     \* tabs whose goto was issued and has not settled
  navDone,        \* tabs whose loop body has completed
  authWarned,     \* tabs whose authentication check logged the warning
  provDelays,     \* inter-batch delays of provisioning that have elapsed
  issuedAt,       \* per tab: what had completed when its page was opened
  readyPending,   \* pages whose readiness callback has not settled
  readyWarned,    \* pages whose second readiness wait timed out
  readySettled,   \* pages whose readiness callback has settled, either way
  readyAt,        \* per page: how its READY_CHECKS wait ended, and at which poll
  inflight,       \* triggerOnPage calls of the current batch not yet settled
  batchResults,   \* outcomes of the settled calls of the current batch, by tab
  settled,        \* the tabs of the current batch in the order their calls settled
  triggerDone,    \* tabs whose triggerOnPage call has settled
  tabRun,         \* per tab: what its triggerOnPage call did and returned
  promptIssued,   \* the order in which triggerOnPage was called
  promptIssuedAt, \* per tab: what had completed when triggerOnPage was called
  promptDelays,   \* inter-batch delays of prompt submission that have elapsed
  results,        \* the results array
  report,         \* the FINAL RESULTS line, once printed
  AUTO_CLOSE_SECONDS \* as read after the report, NotRead before

vars ==
  <<argTabs, HEADLESS, OVERRIDE, MODEL, seedAuth, env, pc, exitCode, abortCause, seedNav,
    authResult, authElapsed, seedStatus, recheck,
    batchStart, i, pages, navPending, navDone, authWarned, provDelays, issuedAt,
    readyPending, readyWarned, readySettled, readyAt, inflight, batchResults, settled,
    triggerDone, tabRun, promptIssued, promptIssuedAt, promptDelays, results, report,
    AUTO_CLOSE_SECONDS>>

NoExit == -1

NotRead == -1

NoAuth == [success |-> FALSE, reason |-> "pending"]

\* No checkAuthentication result yet.
NoStatus == [authenticated |-> FALSE, reason |-> "unchecked"]

NoReport == [printed |-> FALSE, okCount |-> 0, tabs |-> 0, percent |-> 0]

TABS == ClampTabs(MinimistTabs(argTabs))

\* const BATCH_SIZE = Math.min(10, TABS)
BATCH_SIZE == Min(Fx(BATCH_LIMIT), TABS)

\* The prompt batch size without its limit of 15.
PromptBatchSizeUncapped == TABS

\* const PROMPT_BATCH_SIZE = Math.min(15, TABS)
PROMPT_BATCH_SIZE == Min(Fx(PROMPT_BATCH_LIMIT), TABS)

TabEnvOf(t) ==
  IF t = env.at THEN env.kind
  ELSE IF t = env.at + 1 THEN env.next
  ELSE GoodTab

Init ==
  /\ \E in \in Inputs :
       /\ argTabs = in.cmd
       /\ HEADLESS = in.headless
       /\ OVERRIDE = in.override
       /\ MODEL = in.model
       /\ seedAuth = in.seed
       /\ env = in.env
  /\ pc = "launch"
  /\ exitCode = NoExit
  /\ abortCause = ""
  /\ seedNav = "pending"
  /\ authResult = NoAuth
  /\ authElapsed = 0
  /\ seedStatus = NoStatus
  /\ recheck = NoStatus
  /\ batchStart = 0
  /\ i = 0
  /\ pages = <<>>
  /\ navPending = {}
  /\ navDone = {}
  /\ authWarned = {}
  /\ provDelays = 0
  /\ issuedAt = <<>>
  /\ readyPending = {}
  /\ readyWarned = {}
  /\ readySettled = {}
  /\ readyAt = <<>>
  /\ inflight = {}
  /\ batchResults = <<>>
  /\ settled = <<>>
  /\ triggerDone = {}
  /\ tabRun = <<>>
  /\ promptIssued = <<>>
  /\ promptIssuedAt = <<>>
  /\ promptDelays = 0
  /\ results = <<>>
  /\ report = NoReport
  /\ AUTO_CLOSE_SECONDS = NotRead

config == <<argTabs, HEADLESS, OVERRIDE, MODEL, seedAuth, env>>

provVars == <<batchStart, i, pages, navPending, navDone, authWarned, provDelays, issuedAt>>

authVars == <<seedNav, authResult, authElapsed, seedStatus, recheck>>

readyVars == <<readyPending, readyWarned, readySettled, readyAt>>

endVars == <<report, AUTO_CLOSE_SECONDS>>

promptVars ==
  <<inflight, batchResults, settled, triggerDone, tabRun, promptIssued,
    promptIssuedAt, promptDelays, results, endVars>>

\* ------------------------------------------------------------ helpers

Range(f) == {f[k] : k \in DOMAIN f}

\* Tabs with the same environment are interchangeable: of those pending, the one
\* with the least number stands for all of them.
Representative(t, pending) ==
  \A u \in pending : TabEnvOf(u) = TabEnvOf(t) => t <= u

\* The main function's .catch handler: console.error(err); process.exit(1).
Abort(cause) ==
  /\ pc' = "exited"
  /\ exitCode' = 1
  /\ abortCause' = cause

\* handleAuthentication without its headless branch: every mode waits for a login.
FirstAuthAlwaysWaits(obs, headless) ==
  LET st == checkAuthentication(obs, headless)
  IN IF st.authenticated THEN [success |-> TRUE, wait |-> FALSE, reason |-> ""]
     ELSE [success |-> FALSE, wait |-> TRUE, reason |-> st.reason]

\* handleAuthentication up to its wait loop: the first check and the headless rule.
FirstAuth(obs, headless) ==
  LET st == checkAuthentication(obs, headless)
  IN IF st.authenticated THEN [success |-> TRUE, wait |-> FALSE, reason |-> ""]
     ELSE IF headless
     THEN IF st.reason = "login_required"
          THEN [success |-> FALSE, wait |-> FALSE, reason |-> "headless_login_required"]
          ELSE [success |-> TRUE, wait |-> FALSE, reason |-> ""]
     ELSE [success |-> FALSE, wait |-> TRUE, reason |-> st.reason]

\* Math.round(okCount / TABS * 100), TABS in halves.
Percent(okCount, tabs) == (400 * okCount + tabs) \div (2 * tabs)

CountTrue(seq) == Cardinality({k \in 1..Len(seq) : seq[k]})

\* `const pages = []` and the first test of the provisioning loop.
StartProvisioning ==
  /\ pc' = "prov_tab"
  /\ batchStart' = 0
  /\ i' = 0

\* ------------------------------------------------------------ seed page

\* await dash.goto(...) resolves.
NavigateSeed ==
  /\ pc = "launch"
  /\ pc' = "authenticate"
  /\ seedNav' = "ok"
  /\ UNCHANGED <<config, exitCode, abortCause, authResult, authElapsed, seedStatus,
                 recheck, provVars, readyVars, promptVars>>

\* The seed navigation's catch block logging the error without rethrowing it.
NavigateSeedSwallowed ==
  /\ pc = "launch"
  /\ seedNav' = "failed"
  /\ pc' = "authenticate"
  /\ UNCHANGED <<config, exitCode, abortCause, authResult, authElapsed, seedStatus,
                 recheck, provVars, readyVars, promptVars>>

\* await dash.goto(...) rejects: logged and rethrown.
NavigateSeedFails ==
  /\ pc = "launch"
  /\ seedNav' = "failed"
  /\ Abort("seed_navigation")
  /\ UNCHANGED <<config, authResult, authElapsed, seedStatus, recheck, provVars,
                 readyVars, promptVars>>

\* handleAuthentication(dash, 0) up to its wait loop, and main's
\* `if (!authResult.success)`: browser.close(); process.exit(1).
Authenticate ==
  /\ pc = "authenticate"
  /\ seedStatus' = checkAuthentication(seedAuth, HEADLESS)
  /\ LET r == FirstAuth(seedAuth, HEADLESS)
     IN IF r.success
        THEN /\ authResult' = [success |-> TRUE, reason |-> ""]
             /\ StartProvisioning
             /\ UNCHANGED <<exitCode, abortCause, authElapsed>>
        ELSE IF r.wait
        THEN /\ pc' = "auth_wait"
             /\ authElapsed' = 0
             /\ UNCHANGED <<exitCode, abortCause, authResult, batchStart, i>>
        ELSE /\ authResult' = [success |-> FALSE, reason |-> r.reason]
             /\ Abort(r.reason)
             /\ UNCHANGED <<authElapsed, batchStart, i>>
  /\ UNCHANGED <<config, seedNav, recheck, pages, navPending, navDone, authWarned,
                 provDelays, issuedAt, readyVars, promptVars>>

\* The least time one checkAuthentication takes: it waits authSettleTime before
\* it looks, unless it has thrown before that.
CheckTime(obs) == IF obs.throws THEN 0 ELSE authSettleTime

\* A round of the wait loop in which a re-check that finds the user authenticated
\* does not return.
AuthPollKeepsWaiting ==
  /\ pc = "auth_wait"
  /\ authElapsed < maxWaitTime
  /\ \E obs \in AuthObs :
       /\ authElapsed' = authElapsed + pollInterval + CheckTime(obs)
       /\ recheck' = checkAuthentication(obs, HEADLESS)
  /\ UNCHANGED <<config, pc, exitCode, abortCause, seedNav, authResult, seedStatus,
                 provVars, readyVars, promptVars>>

\* One round of `while (Date.now() - startTime < maxWaitTime)`: the wait, then
\* checkAuthentication; handleAuthentication returns success when it finds the
\* user authenticated.
AuthPoll ==
  /\ pc = "auth_wait"
  /\ authElapsed < maxWaitTime
  /\ \E obs \in AuthObs :
       /\ authElapsed' = authElapsed + pollInterval + CheckTime(obs)
       /\ recheck' = checkAuthentication(obs, HEADLESS)
       /\ IF recheck'.authenticated
          THEN /\ authResult' = [success |-> TRUE, reason |-> ""]
               /\ pc' = "auth_done"
          ELSE UNCHANGED <<pc, authResult>>
  /\ UNCHANGED <<config, exitCode, abortCause, seedNav, seedStatus, provVars,
                 readyVars, promptVars>>

\* The loop's page.waitForTimeout(pollInterval) rejects: handleAuthentication's
\* catch returns { success: false, reason: 'error' } in UI mode, and main exits.
AuthWaitFails ==
  /\ pc = "auth_wait"
  /\ authElapsed < maxWaitTime
  /\ authResult' = [success |-> FALSE, reason |-> "error"]
  /\ Abort("error")
  /\ UNCHANGED <<config, seedNav, authElapsed, seedStatus, recheck, provVars, readyVars,
                 promptVars>>

\* main after the wait loop's success: `if (!authResult.success)` is not taken;
\* the loop's startTime and currentAuthStatus are gone with the call.
AuthReturn ==
  /\ pc = "auth_done"
  /\ StartProvisioning
  /\ authElapsed' = 0
  /\ recheck' = NoStatus
  /\ UNCHANGED <<config, exitCode, abortCause, seedNav, authResult, seedStatus, pages,
                 navPending, navDone, authWarned, provDelays, issuedAt, readyVars,
                 promptVars>>

\* The loop ran out: { success: false, reason: 'timeout' }, and main exits.
AuthTimeout ==
  /\ pc = "auth_wait"
  /\ ~(authElapsed < maxWaitTime)
  /\ authResult' = [success |-> FALSE, reason |-> "timeout"]
  /\ Abort("timeout")
  /\ UNCHANGED <<config, seedNav, authElapsed, seedStatus, recheck, provVars, readyVars,
                 promptVars>>

\* ------------------------------------------------------------ provisioning

\* const batchEnd = Math.min(batchStart + BATCH_SIZE, TABS)
ProvBatchEnd == Min(batchStart + BATCH_SIZE, TABS)

\* Math.floor(batchStart / BATCH_SIZE): the batch's number, from 0.
ProvBatchNo == batchStart \div BATCH_SIZE

\* The inner loop's body calling p.goto(...) without awaiting it.
OpenTabNoAwait ==
  /\ pc = "prov_tab"
  /\ i < ProvBatchEnd
  /\ LET t == Cardinality(DOMAIN issuedAt)
     IN /\ navPending' = navPending \cup {t}
        /\ issuedAt' = (t :> [done |-> navDone, pending |-> navPending,
                              delays |-> provDelays, batch |-> ProvBatchNo]) @@ issuedAt
  /\ i' = i + Fx(1)
  /\ UNCHANGED <<config, pc, exitCode, abortCause, authVars, batchStart, pages, navDone,
                 authWarned, provDelays, readyVars, promptVars>>

\* browser.newPage() and the call of p.goto(...) in the inner loop's body.
OpenTab ==
  /\ pc = "prov_tab"
  /\ i < ProvBatchEnd
  /\ LET t == Len(pages)
     IN /\ navPending' = navPending \cup {t}
        /\ issuedAt' = (t :> [done |-> navDone, pending |-> navPending,
                              delays |-> provDelays, batch |-> ProvBatchNo]) @@ issuedAt
  /\ pc' = "prov_nav"
  /\ UNCHANGED <<config, exitCode, abortCause, authVars, batchStart, i, pages, navDone,
                 authWarned, provDelays, readyVars, promptVars>>

\* A tab whose authentication check fails is warned about and left out of pages.
TabNavigatedDropsUnauthenticated ==
  /\ pc = "prov_nav"
  /\ \E t \in navPending :
       /\ TabEnvOf(t).nav
       /\ navPending' = navPending \ {t}
       /\ navDone' = navDone \cup {t}
       /\ IF checkAuthentication(TabEnvOf(t).auth, HEADLESS).authenticated
          THEN /\ pages' = Append(pages, t)
               /\ UNCHANGED authWarned
          ELSE /\ authWarned' = authWarned \cup {t}
               /\ UNCHANGED pages
  /\ i' = i + Fx(1)
  /\ pc' = "prov_tab"
  /\ UNCHANGED <<config, exitCode, abortCause, authVars, batchStart, provDelays,
                 issuedAt, readyVars, promptVars>>

\* goto resolved: the tab's authentication check (a warning at most),
\* pages.push(p), the 100 ms stagger, i++.
TabNavigated ==
  /\ pc = "prov_nav"
  /\ \E t \in navPending :
       /\ TabEnvOf(t).nav
       /\ navPending' = navPending \ {t}
       /\ navDone' = navDone \cup {t}
       /\ authWarned' = IF checkAuthentication(TabEnvOf(t).auth, HEADLESS).authenticated
                        THEN authWarned ELSE authWarned \cup {t}
       /\ pages' = Append(pages, t)
  /\ i' = i + Fx(1)
  /\ pc' = "prov_tab"
  /\ UNCHANGED <<config, exitCode, abortCause, authVars, batchStart, provDelays,
                 issuedAt, readyVars, promptVars>>

\* The tab navigation's catch block logging the error without rethrowing it.
TabNavigationSwallowed ==
  /\ pc = "prov_nav"
  /\ \E t \in navPending :
       /\ ~TabEnvOf(t).nav
       /\ navPending' = navPending \ {t}
  /\ i' = i + Fx(1)
  /\ pc' = "prov_tab"
  /\ UNCHANGED <<config, exitCode, abortCause, authVars, batchStart, pages, navDone,
                 authWarned, provDelays, issuedAt, readyVars, promptVars>>

\* goto rejected: logged as CRITICAL and rethrown.
TabNavigationFails ==
  /\ pc = "prov_nav"
  /\ \E t \in navPending :
       /\ ~TabEnvOf(t).nav
       /\ navPending' = navPending \ {t}
  /\ Abort("tab_navigation")
  /\ UNCHANGED <<config, authVars, batchStart, i, pages, navDone, authWarned,
                 provDelays, issuedAt, readyVars, promptVars>>

\* `batchStart += BATCH_SIZE` and the outer loop's test; when it fails,
\* Promise.all(pages.map(...)) starts the readiness callback of every page.
NextProvBatch ==
  LET nb == batchStart + BATCH_SIZE
  IN /\ batchStart' = nb
     /\ IF nb < TABS
        THEN /\ i' = nb
             /\ pc' = "prov_tab"
             /\ UNCHANGED readyPending
        ELSE /\ pc' = "readiness"
             /\ readyPending' = Range(pages)
             /\ UNCHANGED i

\* The inner loop is over and this was the last batch.
EndLastProvBatch ==
  /\ pc = "prov_tab"
  /\ ~(i < ProvBatchEnd)
  /\ ~(ProvBatchEnd < TABS)
  /\ NextProvBatch
  /\ UNCHANGED <<config, exitCode, abortCause, authVars, pages, navPending, navDone,
                 authWarned, provDelays, issuedAt, readyWarned, readySettled, readyAt,
                 promptVars>>

\* The next batch started without the pause between batches.
EndProvBatchNoPause ==
  /\ pc = "prov_tab"
  /\ ~(i < ProvBatchEnd)
  /\ ProvBatchEnd < TABS
  /\ NextProvBatch
  /\ UNCHANGED <<config, exitCode, abortCause, authVars, pages, navPending, navDone,
                 authWarned, provDelays, issuedAt, readyWarned, readySettled, readyAt,
                 promptVars>>

\* The inner loop is over and more batches follow: the 2 s pause begins.
EndProvBatch ==
  /\ pc = "prov_tab"
  /\ ~(i < ProvBatchEnd)
  /\ ProvBatchEnd < TABS
  /\ pc' = "prov_delay"
  /\ UNCHANGED <<config, exitCode, abortCause, authVars, provVars, readyVars, promptVars>>

\* The 2 s pause has elapsed.
ProvDelayElapsed ==
  /\ pc = "prov_delay"
  /\ provDelays' = provDelays + 1
  /\ NextProvBatch
  /\ UNCHANGED <<config, exitCode, abortCause, authVars, pages, navPending, navDone,
                 authWarned, issuedAt, readyWarned, readySettled, readyAt,
                 promptVars>>

\* ------------------------------------------------------------ readiness

\* One page's readiness callback runs to its end: waitForLoadState and the
\* READY_CHECKS poll succeeded; a timeout of the second, guarded wait is only logged.
ReadySettles ==
  /\ pc = "readiness"
  /\ \E t \in readyPending :
       /\ Representative(t, readyPending)
       /\ Readiness(TabEnvOf(t)) \in {"ready", "ui_timeout"}
       /\ readyPending' = readyPending \ {t}
       /\ readySettled' = readySettled \cup {t}
       /\ readyAt' = (t :> WaitForReady(TabEnvOf(t).shell)) @@ readyAt
       /\ readyWarned' = IF Readiness(TabEnvOf(t)) = "ui_timeout"
                         THEN readyWarned \cup {t} ELSE readyWarned
  /\ UNCHANGED <<config, pc, exitCode, abortCause, authVars, provVars, promptVars>>

\* waitForLoadState or the READY_CHECKS poll timed out: the callback rejects,
\* Promise.all rejects and the error reaches main's .catch.
ReadyTimesOut ==
  /\ pc = "readiness"
  /\ \E t \in readyPending :
       /\ Representative(t, readyPending)
       /\ Readiness(TabEnvOf(t)) \in {"load_timeout", "shell_timeout"}
       /\ readyPending' = readyPending \ {t}
       /\ readySettled' = readySettled \cup {t}
       /\ readyAt' = IF Readiness(TabEnvOf(t)) = "shell_timeout"
                     THEN (t :> WaitForReady(TabEnvOf(t).shell)) @@ readyAt
                     ELSE readyAt
  /\ Abort("readiness_timeout")
  /\ UNCHANGED <<config, authVars, provVars, readyWarned, promptVars>>

\* The prompt loop starting as soon as one page's readiness callback has settled.
ReadinessJoinAtFirstSettled ==
  /\ pc = "readiness"
  /\ readySettled # {}
  /\ pc' = "prompt_loop"
  /\ batchStart' = 0
  /\ UNCHANGED <<config, exitCode, abortCause, authVars, i, pages, navPending, navDone,
                 authWarned, provDelays, issuedAt, readyVars, promptVars>>

\* Promise.all resolved: `const results = []` and the prompt loop's first test.
ReadinessJoin ==
  /\ pc = "readiness"
  /\ readyPending = {}
  /\ pc' = "prompt_loop"
  /\ batchStart' = 0
  /\ UNCHANGED <<config, exitCode, abortCause, authVars, i, pages, navPending, navDone,
                 authWarned, provDelays, issuedAt, readyVars, promptVars>>

\* ------------------------------------------------------------ prompts

\* const batchEnd = Math.min(batchStart + PROMPT_BATCH_SIZE, pages.length)
PromptBatchEnd == Min(batchStart + PROMPT_BATCH_SIZE, Fx(Len(pages)))

\* pages.slice(batchStart, batchEnd)
BatchPages == SubSeq(pages, TruncFx(batchStart) + 1, TruncFx(PromptBatchEnd))

PromptBatchNo == batchStart \div PROMPT_BATCH_SIZE

\* batchPages.map((p, i) => triggerOnPage(p, batchStart + i)): every call of the
\* batch is made, in the order of the array, before any of them settles.
StartPromptBatch ==
  /\ pc = "prompt_loop"
  /\ batchStart < Fx(Len(pages))
  /\ inflight' = Range(BatchPages)
  /\ batchResults' = <<>>
  /\ settled' = <<>>
  /\ promptIssued' = promptIssued \o BatchPages
  /\ promptIssuedAt' =
       [t \in Range(BatchPages) |->
          [done |-> triggerDone, delays |-> promptDelays, batch |-> PromptBatchNo]]
       @@ promptIssuedAt
  /\ pc' = "prompt_wait"
  /\ UNCHANGED <<config, exitCode, abortCause, authVars, provVars, readyVars,
                 triggerDone, tabRun, promptDelays, results, endVars>>

\* triggerOnPage without its try/catch: a step that throws rejects the call,
\* Promise.all rejects and the error reaches main's .catch.
TriggerSettlesUncaught ==
  /\ pc = "prompt_wait"
  /\ \E t \in inflight :
       LET r == triggerOnPage(TabEnvOf(t).dom, OVERRIDE, MODEL)
       IN /\ Representative(t, inflight)
          /\ inflight' = inflight \ {t}
          /\ triggerDone' = triggerDone \cup {t}
          /\ settled' = Append(settled, t)
          /\ IF TabEnvOf(t).dom.throwsAt # "none"
             THEN /\ Abort("trigger_error")
                  /\ UNCHANGED <<batchResults, tabRun>>
             ELSE /\ batchResults' = (t :> r.outcome) @@ batchResults
                  /\ tabRun' = (t :> r) @@ tabRun
                  /\ UNCHANGED <<pc, exitCode, abortCause>>
  /\ UNCHANGED <<config, authVars, provVars, readyVars, promptIssued, promptIssuedAt,
                 promptDelays, results, endVars>>

\* One triggerOnPage call settles.
TriggerSettles ==
  /\ pc = "prompt_wait"
  /\ \E t \in inflight :
       LET r == triggerOnPage(TabEnvOf(t).dom, OVERRIDE, MODEL)
       IN /\ Representative(t, inflight)
          /\ inflight' = inflight \ {t}
          /\ batchResults' = (t :> r.outcome) @@ batchResults
          /\ tabRun' = (t :> r) @@ tabRun
          /\ triggerDone' = triggerDone \cup {t}
          /\ settled' = Append(settled, t)
  /\ UNCHANGED <<config, pc, exitCode, abortCause, authVars, provVars, readyVars,
                 promptIssued, promptIssuedAt, promptDelays, results, endVars>>

\* The outcomes of a batch in the order in which the calls settled.
JoinedInCompletionOrder == [k \in 1..Len(settled) |-> batchResults[settled[k]]]

\* Promise.all's value: the outcomes in the order of batchPages.
Joined == [k \in 1..Len(BatchPages) |-> batchResults[BatchPages[k]]]

\* Promise.all resolved and this was the last batch: results.push(...batchResults),
\* batchStart += PROMPT_BATCH_SIZE.
JoinLastPromptBatch ==
  /\ pc = "prompt_wait"
  /\ inflight = {}
  /\ ~(PromptBatchEnd < Fx(Len(pages)))
  /\ results' = results \o Joined
  /\ batchStart' = batchStart + PROMPT_BATCH_SIZE
  /\ pc' = "prompt_loop"
  /\ UNCHANGED <<config, exitCode, abortCause, authVars, i, pages, navPending, navDone,
                 authWarned, provDelays, issuedAt, readyVars, inflight, batchResults,
                 settled, triggerDone, tabRun, promptIssued, promptIssuedAt,
                 promptDelays, endVars>>

\* Promise.all resolved and more batches follow: results.push(...batchResults),
\* then the 1 s pause begins.
JoinPromptBatch ==
  /\ pc = "prompt_wait"
  /\ inflight = {}
  /\ PromptBatchEnd < Fx(Len(pages))
  /\ results' = results \o Joined
  /\ pc' = "prompt_delay"
  /\ UNCHANGED <<config, exitCode, abortCause, authVars, provVars, readyVars, inflight,
                 batchResults, settled, triggerDone, tabRun, promptIssued,
                 promptIssuedAt, promptDelays, endVars>>

\* The 1 s pause has elapsed: batchStart += PROMPT_BATCH_SIZE.
PromptDelayElapsed ==
  /\ pc = "prompt_delay"
  /\ promptDelays' = promptDelays + 1
  /\ batchStart' = batchStart + PROMPT_BATCH_SIZE
  /\ pc' = "prompt_loop"
  /\ UNCHANGED <<config, exitCode, abortCause, authVars, i, pages, navPending, navDone,
                 authWarned, provDelays, issuedAt, readyVars, inflight, batchResults,
                 settled, triggerDone, tabRun, promptIssued, promptIssuedAt, results,
                 endVars>>

\* ------------------------------------------------------------ the end

\* The report ending the process with exit code 1 when a tab was unsuccessful.
ReportFailsOnUnsuccessful ==
  /\ pc = "prompt_loop"
  /\ ~(batchStart < Fx(Len(pages)))
  /\ LET okCount == CountTrue(results)
     IN /\ report' = [printed |-> TRUE, okCount |-> okCount, tabs |-> TABS,
                      percent |-> Percent(okCount, TABS)]
        /\ \E secs \in {0, 30} :
             /\ AUTO_CLOSE_SECONDS' = secs
             /\ IF okCount < Len(results)
                THEN Abort("unsuccessful_tabs")
                ELSE /\ pc' = IF secs > 0 THEN "auto_close" ELSE "idle"
                     /\ UNCHANGED <<exitCode, abortCause>>
  /\ UNCHANGED <<config, authVars, provVars, readyVars, inflight, batchResults,
                 settled, triggerDone, tabRun, promptIssued, promptIssuedAt,
                 promptDelays, results>>

\* The prompt loop is over: the FINAL RESULTS line, then AUTO_CLOSE_SECONDS is read
\* from the process environment.
Report ==
  /\ pc = "prompt_loop"
  /\ ~(batchStart < Fx(Len(pages)))
  /\ LET okCount == CountTrue(results)
     IN report' = [printed |-> TRUE, okCount |-> okCount, tabs |-> TABS,
                   percent |-> Percent(okCount, TABS)]
  /\ \E secs \in {0, 30} :
       /\ AUTO_CLOSE_SECONDS' = secs
       /\ pc' = IF secs > 0 THEN "auto_close" ELSE "idle"
  /\ UNCHANGED <<config, exitCode, abortCause, authVars, provVars, readyVars, inflight,
                 batchResults, settled, triggerDone, tabRun, promptIssued,
                 promptIssuedAt, promptDelays, results>>

\* The auto-close timer fired: browser.close(), the main function returns and
\* the process ends.
AutoClose ==
  /\ pc = "auto_close"
  /\ pc' = "exited"
  /\ exitCode' = 0
  /\ UNCHANGED <<config, abortCause, authVars, provVars, readyVars, promptVars>>

Next ==
  \/ NavigateSeed
  \/ NavigateSeedFails
  \/ Authenticate
  \/ AuthPoll
  \/ AuthWaitFails
  \/ AuthReturn
  \/ AuthTimeout
  \/ OpenTab
  \/ TabNavigated
  \/ TabNavigationFails
  \/ EndProvBatch
  \/ EndLastProvBatch
  \/ ProvDelayElapsed
  \/ ReadySettles
  \/ ReadyTimesOut
  \/ ReadinessJoin
  \/ StartPromptBatch
  \/ TriggerSettles
  \/ JoinPromptBatch
  \/ JoinLastPromptBatch
  \/ PromptDelayElapsed
  \/ Report
  \/ AutoClose

Spec == Init /\ [][Next]_vars

\* ------------------------------------------------------------ properties

Issued == DOMAIN issuedAt

\* C1: whatever --tabs is (absent, not a number, zero, negative, huge), TABS lies
\* in [1, 55] and no run opens more than 55 load-test tabs; an absent or
\* non-numeric --tabs gives the default 5.
TabsWithinCap ==
  /\ Fx(1) <= TABS
  /\ TABS <= Fx(55)
  /\ Cardinality(Issued) <= 55
  /\ Len(pages) <= 55
  /\ argTabs.kind \in {"absent", "str"} => TABS = Fx(5)

\* C1: a request for far more than 55 tabs has opened all of its 55 tabs.
TabsWithinCapWitness ==
  /\ argTabs = CmdNum(Fx(HugeTabs))
  /\ Len(pages) = 55

\* C2: clamping maps a requested count of 0 to 1, a huge count to 55, and leaves
\* 5 unchanged.
ClampExamples ==
  /\ argTabs = CmdNum(0) => TABS = Fx(1)
  /\ argTabs = CmdNum(Fx(HugeTabs)) => TABS = Fx(55)
  /\ argTabs = CmdNum(Fx(5)) => TABS = Fx(5)

\* A tab's goto was issued and has rejected.
NavFailed(t) == t \in Issued /\ t \notin navPending /\ ~TabEnvOf(t).nav

\* C3: once the navigation of a load-test tab has failed the run is over with exit
\* code 1: that tab is the last one opened, no prompt was or is submitted on any
\* tab, no readiness wait ran and no final result is reported.
NavFailureAborts ==
  \A t \in Issued :
    NavFailed(t) =>
      /\ pc = "exited"
      /\ exitCode = 1
      /\ Issued = 0..t
      /\ Range(pages) = 0..(t - 1)
      /\ readySettled = {}
      /\ promptIssued = <<>>
      /\ triggerDone = {}
      /\ results = <<>>
      /\ ~report.printed

\* C3: the second tab's navigation failed after the first tab had been opened.
NavFailureAbortsWitness ==
  /\ NavFailed(1)
  /\ pages = <<0>>
  /\ exitCode = 1

\* C4: a readiness poll that times out for a tab does not abort the run.
ReadinessTimeoutNotFatal ==
  \A t \in readySettled :
    Readiness(TabEnvOf(t)) \in {"shell_timeout", "ui_timeout"} => exitCode # 1

SubmitActs == {Act("click", "sendButton", ""), Act("press", "promptInput", "Enter")}

Submission(s) == <<Act("click", "promptInput", ""), Act("type", "promptInput", ""), s>>

\* What a call did to the prompt input and the send button, in order.
PromptSteps(r) ==
  LET OnPrompt(a) == a.el \in {"promptInput", "sendButton"}
  IN SelectSeq(r.acts, OnPrompt)

OverrideClicks(r) ==
  LET OnOverride(a) == a.el = "override"
  IN SelectSeq(r.acts, OnOverride)

\* The call went through focus, typing and one submit action.
ReachedSubmitted(r) == \E s \in SubmitActs : PromptSteps(r) = Submission(s)

\* The call's steps are an initial part of focus, type, submit: no step is
\* repeated and none follows a step that did not happen.
StepsInOrder(r) ==
  \E s \in SubmitActs : \E n \in 0..3 : PromptSteps(r) = SubSeq(Submission(s), 1, n)

MainFails(dom) == ~dom.prompt \/ dom.throwsAt # "none" \/ dom.send = "disabled_empty"

PromptPhase == pc \in {"prompt_loop", "prompt_wait", "prompt_delay"}

\* Neither an exception nor a failed tab stops the prompt phase: the run is not
\* aborted, a pending call can always settle, and a printed report covers every tab.
PromptPhaseGoesOn ==
  /\ promptIssued # <<>> => exitCode # 1 /\ abortCause = ""
  /\ PromptPhase => ENABLED Next
  /\ (pc = "prompt_wait" /\ inflight # {}) => ENABLED TriggerSettles
  /\ report.printed => DOMAIN tabRun = Range(pages) /\ Len(results) = Len(pages)

ExitsZeroAfterPrompts == report.printed => exitCode = 0 \/ ENABLED Next

\* C7 amended: after all prompt batches have completed the process never ends with
\* exit code 1, also when tabs were unsuccessful; it terminates, with exit code 0,
\* exactly when AUTO_CLOSE_SECONDS is positive, and otherwise stays alive with the
\* browser open.
ExitsZeroOnlyWithAutoClose ==
  report.printed =>
    /\ exitCode # 1
    /\ AUTO_CLOSE_SECONDS > 0 => exitCode = 0 \/ ENABLED AutoClose
    /\ ~(AUTO_CLOSE_SECONDS > 0) => exitCode = NoExit /\ ~ENABLED Next

\* C7: a run in which no tab was successful has ended with exit code 0.
ExitsZeroOnlyWithAutoCloseWitness ==
  /\ report.printed
  /\ report.okCount = 0
  /\ pc = "exited"
  /\ exitCode = 0

\* handleAuthentication reported failure for the seed page.
AuthFailed == authResult # NoAuth /\ ~authResult.success

\* C8: if the seed page's navigation fails or the authentication flow reports
\* failure, the run has ended with exit code 1 and no load-test tab was opened and
\* no prompt submitted.
SetupFailureAborts ==
  (seedNav = "failed" \/ AuthFailed) =>
    /\ pc = "exited"
    /\ exitCode = 1
    /\ Issued = {}
    /\ pages = <<>>
    /\ promptIssued = <<>>
    /\ triggerDone = {}
    /\ ~report.printed

\* C8: the seed page's navigation has failed.
SetupFailureAbortsWitness ==
  /\ seedNav = "failed"
  /\ exitCode = 1

\* C9: in provisioning and in prompt submission alike, when an operation of a
\* batch is issued every operation of the earlier batches has completed and the
\* pause after each earlier batch has elapsed.
BatchesInSequence ==
  /\ \A t \in Issued :
       /\ issuedAt[t].delays >= issuedAt[t].batch
       /\ \A u \in 0..(t - 1) :
            Fx(u) \div BATCH_SIZE < issuedAt[t].batch => u \in issuedAt[t].done
  /\ \A t \in DOMAIN promptIssuedAt :
       /\ promptIssuedAt[t].delays >= promptIssuedAt[t].batch
       /\ \A u \in 0..(t - 1) :
            Fx(u) \div PROMPT_BATCH_SIZE < promptIssuedAt[t].batch
              => u \in promptIssuedAt[t].done

\* C9: a tab of the third provisioning batch and a tab of the second prompt batch
\* have been issued.
BatchesInSequenceWitness ==
  /\ \E t \in Issued : issuedAt[t].batch = 2
  /\ \E t \in DOMAIN promptIssuedAt : promptIssuedAt[t].batch = 1

\* C10 as stated: the tabs of a provisioning batch are opened as concurrently
\* pending operations: when a later tab of the batch is opened, the navigation of
\* every earlier tab of the batch is still pending.
ProvisioningFansOut ==
  \A t \in Issued : \A u \in Issued :
    (u < t /\ issuedAt[u].batch = issuedAt[t].batch) => u \in issuedAt[t].pending

\* C10 amended: the tabs of a provisioning batch are opened strictly one after
\* another: a tab is opened only when every earlier tab's navigation,
\* authentication check and stagger have completed, so at most one tab-opening
\* operation is pending at any time.
ProvisioningIsSequential ==
  /\ Cardinality(navPending) <= 1
  /\ \A t \in Issued :
       /\ issuedAt[t].pending = {}
       /\ issuedAt[t].done = 0..(t - 1)

\* C10: the last tab of a full batch of 10 has been opened.
ProvisioningIsSequentialWitness ==
  \E t \in Issued : t = 9 /\ issuedAt[t].batch = 0 /\ issuedAt[t].done = 0..8

\* The tabs opened in provisioning batch b.
OpenedInBatch(b) == {t \in Issued : issuedAt[t].batch = b}

\* C11: at every moment at most 15 triggerOnPage calls are in flight, and at
\* every moment at most 10 tab-opening operations are in flight; no provisioning
\* batch opens more than 10 tabs.
InFlightBounded ==
  /\ Cardinality(inflight) <= 15
  /\ Cardinality(navPending) <= 10
  /\ \A b \in {issuedAt[t].batch : t \in Issued} : Cardinality(OpenedInBatch(b)) <= 10

\* C11: 15 triggerOnPage calls are in flight after a provisioning batch of 10 tabs.
InFlightBoundedWitness ==
  /\ Cardinality(inflight) = 15
  /\ Cardinality(OpenedInBatch(0)) = 10

\* The provisioning loop has run to its end.
ProvisioningDone == readyPending # {} \/ readySettled # {}

\* The number of tabs opened in each provisioning batch, by batch number.
BatchSizes ==
  LET batches == {issuedAt[t].batch : t \in Issued}
  IN [b \in batches |-> Cardinality(OpenedInBatch(b))]

\* C12: provisioning splits the tab indices 0..TABS-1 into consecutive batches of
\* size min(10, TABS), only the last one possibly smaller, every index in exactly
\* one batch; for TABS = 23 the batch sizes are 10, 10, 3.
BatchPartition ==
  /\ \A t \in Issued :
       /\ Fx(t) <= TABS - Fx(1)
       /\ issuedAt[t].batch = Fx(t) \div BATCH_SIZE
       /\ Fx(BatchSizes[issuedAt[t].batch]) <= BATCH_SIZE
  /\ ProvisioningDone =>
       /\ Fx(Cardinality(Issued)) = TABS
       /\ Issued = 0..(Cardinality(Issued) - 1)
       /\ \A b \in DOMAIN BatchSizes :
            (\E c \in DOMAIN BatchSizes : c > b) => Fx(BatchSizes[b]) = BATCH_SIZE
       /\ TABS = Fx(23) => BatchSizes = (0 :> 10) @@ (1 :> 10) @@ (2 :> 3)

\* C13: within a prompt batch triggerOnPage is called for the tabs in ascending
\* index order, and whatever the order in which the calls settle, results[i] is
\* the outcome of tab i.
ResultsByIndex ==
  /\ \A k \in DOMAIN promptIssued : promptIssued[k] = k - 1
  /\ \A k \in DOMAIN results :
       /\ pages[k] = k - 1
       /\ (k - 1) \in DOMAIN tabRun
       /\ results[k] = tabRun[k - 1].outcome
       /\ results[k] = triggerOnPage(TabEnvOf(k - 1).dom, OVERRIDE, MODEL).outcome

\* C13: the call of the second tab of a batch settled first, the two outcomes
\* differ, and both are in the results.
ResultsByIndexWitness ==
  /\ Len(settled) >= 2
  /\ settled[1] = 1
  /\ settled[2] = 0
  /\ Len(results) >= 2
  /\ results[1] # results[2]

\* C14: an element that is a decoy (such as a branch-name input) is never the
\* element clicked, typed into or submitted as the prompt, on any path, the
\* --promptSelector override path included.
DecoyNeverActedOn ==
  \A t \in DOMAIN tabRun :
    TabEnvOf(t).dom.override = "decoy" =>
      /\ OverrideClicks(tabRun[t]) = <<>>
      /\ tabRun[t].via # "override"

DropdownClicks(r) ==
  LET OnDropdown(a) == a.el = "modelDropdown"
  IN SelectSeq(r.acts, OnDropdown)

\* C15: whatever the lookups of the candidate selectors give, the candidate used
\* is the first one in list order whose element is visible, a candidate whose
\* lookup throws being skipped; when no candidate is visible nothing is found; a
\* later candidate is never preferred over an earlier visible one.
FirstVisibleWins ==
  \A t \in DOMAIN tabRun :
    LET lookups == TabEnvOf(t).dom.dropdown
        visible == {k \in DOMAIN lookups : lookups[k] = "visible"}
        clicks == DropdownClicks(tabRun[t])
    IN /\ visible = {} => clicks = <<>>
       /\ \A a \in Range(clicks) :
            \E k \in visible :
              /\ a.item = dropdownSelectors[k]
              /\ \A j \in visible : k <= j
       /\ (visible # {} /\ TabEnvOf(t).dom.modelThrows # "dropdown") => Len(clicks) = 1

\* C15: the first lookup threw, the second found nothing visible, the third and
\* the fifth found a visible element, and the third selector's element was used.
FirstVisibleWinsWitness ==
  \E t \in DOMAIN tabRun :
    /\ TabEnvOf(t).dom.dropdown = <<"throws", "hidden", "visible", "hidden", "visible">>
    /\ DropdownClicks(tabRun[t]) = <<Act("click", "modelDropdown", dropdownSelectors[3])>>

\* The polls of the READY_CHECKS wait that happen within its window.
ReadyPolls == {n \in 0..(readyTimeout \div readyPolling) : n * readyPolling < readyTimeout}

\* The polls of the window at which at least one readiness predicate is true.
TruePolls(shell) ==
  {n \in ReadyPolls : \E k \in 1..Len(READY_CHECKS) : PollValues(shell, n)[k] = "true"}

\* C16: the readiness wait reports ready at the first poll at which at least one
\* readiness predicate is true, a predicate that throws counting as false, and it
\* times out only if no predicate is true at any poll of the window; a predicate
\* first true at the last poll before the timeout counts as ready.
ReadyAtFirstTruePoll ==
  \A shell \in {TabEnvOf(t).shell : t \in DOMAIN readyAt} :
    LET polls == TruePolls(shell)
    IN \A t \in DOMAIN readyAt :
         TabEnvOf(t).shell = shell =>
           /\ readyAt[t].ready <=> polls # {}
           /\ readyAt[t].ready =>
                /\ readyAt[t].poll \in polls
                /\ \A n \in polls : readyAt[t].poll <= n
           /\ ~readyAt[t].ready =>
                /\ t \notin DOMAIN promptIssuedAt
                /\ pc = "exited" => exitCode = 1
           /\ LastReadyPoll \in polls => readyAt[t].ready

\* C16: on a page whose first predicate throws and whose third one becomes true
\* exactly at the last poll before the timeout, the wait reported ready at that
\* poll and the tab went on to its prompt.
ReadyAtFirstTruePollWitness ==
  \E t \in DOMAIN readyAt :
    /\ TabEnvOf(t).shell.from = LastReadyPoll
    /\ TabEnvOf(t).shell.after = <<"throws", "false", "true">>
    /\ readyAt[t] = [ready |-> TRUE, poll |-> LastReadyPoll]
    /\ t \in triggerDone

\* The text was typed into the prompt element.
Typed(r) == Len(PromptSteps(r)) >= 2

PromptStepsOrdered ==
  \A t \in DOMAIN tabRun :
    LET acts == tabRun[t].acts
    IN /\ StepsInOrder(tabRun[t])
       /\ PromptSteps(tabRun[t]) # <<>> => TabEnvOf(t).dom.prompt
       /\ \A j \in DOMAIN acts :
            /\ acts[j].op = "type" =>
                 \E k \in 1..(j - 1) : acts[k] = Act("click", "promptInput", "")
            /\ acts[j] \in SubmitActs =>
                 \E k \in 1..(j - 1) : acts[k] = Act("type", "promptInput", "")

\* C18: one tab went through focus, typing and submission, and a tab on which
\* typing threw stopped after the focus click.
PromptStepsOrderedWitness ==
  /\ \E t \in DOMAIN tabRun : ReachedSubmitted(tabRun[t])
  /\ \E t \in DOMAIN tabRun :
       /\ TabEnvOf(t).dom.throwsAt = "type"
       /\ PromptSteps(tabRun[t]) = <<Act("click", "promptInput", "")>>

\* Math.round of the percentage that okCount is of n tabs.
RoundedPercent(okCount, n) == (200 * okCount + n) \div (2 * n)

\* C19: the final report's success count is the number of tabs whose attempt
\* returned true, and its percentage is that count over the number of tabs,
\* rounded; with 3 tabs of which one has a resolvable prompt element, one has only
\* a decoy element and one has no matching element, it reports 1/3 (33%).
ReportCountsTabs ==
  report.printed =>
    /\ report.okCount = Cardinality({t \in DOMAIN tabRun : tabRun[t].outcome})
    /\ report.percent = RoundedPercent(report.okCount, Len(pages))
    /\ (env = ScenarioEnv /\ ~OVERRIDE) =>
         /\ report.okCount = 1
         /\ report.tabs = Fx(3)
         /\ report.percent = 33

\* The element an action was performed on: the menu items are elements of their
\* own, every other role stands for one element of the page.
Element(a) == IF a.el = "modelOption" THEN <<a.el, a.item>> ELSE <<a.el, "">>

ElementsActedOn(r) == {Element(a) : a \in Range(r.acts)}

\* C20 as stated: at most one element is acted upon per tab per attempt.
OneElementPerAttempt ==
  \A t \in DOMAIN tabRun : Cardinality(ElementsActedOn(tabRun[t])) <= 1

\* C20 amended: every tab gets one attempt, and in it at most one element of each
\* role is acted upon and no action is repeated: the model dropdown button and
\* one model menu item (a click each), the prompt element (a click, the typing, at
\* most one Enter), the send button (at most one click) and, only when the main
\* path did not return true and an override is configured, the override element
\* (a click).
OneElementPerRole ==
  /\ \A j \in DOMAIN promptIssued : \A k \in DOMAIN promptIssued :
       promptIssued[j] = promptIssued[k] => j = k
  /\ \A t \in DOMAIN tabRun :
       LET acts == tabRun[t].acts
           els == ElementsActedOn(tabRun[t])
       IN /\ \A j \in DOMAIN acts : \A k \in DOMAIN acts : acts[j] = acts[k] => j = k
          /\ \A a \in Range(acts) :
               a.el \in {"modelDropdown", "modelOption", "promptInput", "sendButton",
                         "override"}
          /\ \A role \in {"modelDropdown", "modelOption", "promptInput", "sendButton",
                          "override"} :
               Cardinality({e \in els : e[1] = role}) <= 1
          /\ <<"override", "">> \in els =>
               /\ OVERRIDE
               /\ tabRun[t].via = "override"
               /\ ~MainPath(TabEnvOf(t).dom).returned

\* C20: in one attempt the model dropdown, a menu item, the prompt element and
\* the send button were acted upon.
OneElementPerRoleWitness ==
  \E t \in DOMAIN tabRun :
    /\ Cardinality(ElementsActedOn(tabRun[t])) = 4
    /\ <<"sendButton", "">> \in ElementsActedOn(tabRun[t])
    /\ tabRun[t].outcome

\* ------------------------------------------------------------ C21

\* The seed page has been checked in headless mode.
HeadlessChecked == HEADLESS /\ seedStatus # NoStatus

\* handleAuthentication failed as headless mode does, and main exited with code 1.
HeadlessLoginFailure ==
  /\ authResult = [success |-> FALSE, reason |-> "headless_login_required"]
  /\ pc = "exited"
  /\ exitCode = 1

\* handleAuthentication reported success and main went on to open the tabs.
AuthProceeds ==
  /\ authResult = [success |-> TRUE, reason |-> ""]
  /\ pc \notin {"launch", "authenticate", "auth_wait", "auth_done"}
  /\ abortCause \notin {"headless_login_required", "timeout", "error"}

\* C21 as stated: in headless mode, authentication fails (reason
\* headless_login_required, exit code 1) if and only if a login button is visible
\* on the seed page; in every other case it reports success and the run goes on.
HeadlessFailsIffLoginVisible ==
  HeadlessChecked =>
    /\ HeadlessLoginFailure <=> seedAuth.login
    /\ ~seedAuth.login => AuthProceeds

\* C21, amended: in headless mode, authentication fails (reason
\* headless_login_required, exit code 1) if and only if the check of the seed page
\* runs without an error and finds a login button visible; in every other case,
\* an error thrown during the check included, it reports success and the run goes on.
HeadlessFailsIffLoginFound ==
  HeadlessChecked =>
    /\ HeadlessLoginFailure <=> (seedAuth.login /\ ~seedAuth.throws)
    /\ ~(seedAuth.login /\ ~seedAuth.throws) => AuthProceeds

\* A headless run went on to submit its prompt although the seed page showed a
\* login button, because the check threw before it looked.
HeadlessFailsIffLoginFoundWitness ==
  /\ HeadlessChecked
  /\ seedAuth.login
  /\ seedAuth.throws
  /\ AuthProceeds
  /\ report.printed

\* ------------------------------------------------------------ C22

\* UI mode, and the first check found the seed page not authenticated.
UiLoginNeeded == ~HEADLESS /\ seedStatus # NoStatus /\ ~seedStatus.authenticated

\* The least time the latest round of the wait loop took.
LastRound ==
  pollInterval + (IF recheck.reason = "error" THEN 0 ELSE authSettleTime)

\* What holds of the wait loop whatever its timing: it goes on while no re-check
\* has found the user authenticated, returns success at the first that does, and
\* the failure after the loop has the reason timeout.
WaitLoopOutcome ==
  /\ pc = "auth_wait" => authResult = NoAuth /\ ~recheck.authenticated
  /\ pc = "auth_done" => authResult = [success |-> TRUE, reason |-> ""]
                         /\ recheck.authenticated
  /\ authResult.reason = "timeout" =>
       /\ pc = "exited" /\ exitCode = 1
       /\ ~recheck.authenticated
       /\ authElapsed >= maxWaitTime

WaitLoopBounded ==
  UiLoginNeeded =>
    /\ WaitLoopOutcome
    /\ pc \in {"auth_wait", "auth_done"} /\ recheck # NoStatus =>
         /\ authElapsed >= LastRound
         /\ authElapsed - LastRound < maxWaitTime
    /\ AuthFailed =>
         /\ authResult.reason \in {"timeout", "error"}
         /\ authResult.reason = "error" => authElapsed < maxWaitTime
         /\ pc = "exited" /\ exitCode = 1

\* What C22, amended, says of every step: a round that does not end the wait
\* takes at least the 5 seconds of its pause.
WaitLoopAdvances ==
  pc = "auth_wait" /\ pc' = "auth_wait" => authElapsed' >= authElapsed + pollInterval

NotAuthenticatedTabs ==
  {t \in navDone : ~checkAuthentication(TabEnvOf(t).auth, HEADLESS).authenticated}

\* C23: every load-test tab is checked for authentication after it has navigated,
\* and a tab found not authenticated gets the warning and nothing else: it is in
\* pages, the run is not aborted for it, it gets its prompt attempt and its place
\* in results, and the report still counts TABS tabs.
UnauthenticatedTabOnlyWarns ==
  /\ authWarned = NotAuthenticatedTabs
  /\ \A t \in authWarned :
       /\ t \in Range(pages)
       /\ abortCause = ""
       /\ report.printed =>
            /\ t \in Range(promptIssued)
            /\ t \in DOMAIN tabRun
            /\ Len(results) = Len(pages)
            /\ results[t + 1] = tabRun[t].outcome
            /\ report.tabs = TABS

\* A tab that got the warning was given the prompt, which was submitted, and
\* the report has been printed.
UnauthenticatedTabOnlyWarnsWitness ==
  /\ report.printed
  /\ \E t \in authWarned :
       /\ TabEnvOf(t).auth.login
       /\ tabRun[t].outcome
       /\ results[t + 1]

\* ------------------------------------------------------------ C24

LoginRequired == [authenticated |-> FALSE, reason |-> "login_required"]

\* C24 as stated: checkAuthentication reports not-authenticated with reason
\* login_required whenever a login button is visible, whatever else is; the
\* authenticated indicators and the URL heuristic decide only when none is.
LoginButtonWins ==
  seedStatus # NoStatus =>
    /\ seedAuth.login => seedStatus = LoginRequired
    /\ seedStatus.reason \in {"authenticated", "on_builder_page"} => ~seedAuth.login

\* C24, amended: checkAuthentication, when it runs without an error, reports
\* not-authenticated with reason login_required whenever a login button is
\* visible, whatever else is; the authenticated indicators and the URL heuristic
\* decide only when no login button is visible, the indicators before the URL.
\* When the check throws before it has looked, a visible login button has no effect.
LoginButtonWinsWhenLookedFor ==
  seedStatus # NoStatus =>
    /\ seedAuth.login /\ ~seedAuth.throws => seedStatus = LoginRequired
    /\ seedStatus = LoginRequired => seedAuth.login
    /\ seedStatus.reason = "authenticated" <=>
         ~seedAuth.throws /\ ~seedAuth.login /\ seedAuth.indicator
    /\ seedStatus.reason = "on_builder_page" <=>
         ~seedAuth.throws /\ ~seedAuth.login /\ ~seedAuth.indicator /\ seedAuth.builderUrl
    /\ seedAuth.throws => seedStatus.reason \in {"error", "headless_error_assumption"}

\* A page on a builder.io URL showing both a login button and an authenticated
\* indicator was reported as login_required.
LoginButtonWinsWhenLookedForWitness ==
  /\ seedAuth = [login |-> TRUE, indicator |-> TRUE, builderUrl |-> TRUE, throws |-> FALSE]
  /\ seedStatus = LoginRequired

\* ------------------------------------------------------------ C25

\* C25: the override element is acted upon only on a tab whose main path did not
\* return true, and then after whatever the main path did; a tab whose main path
\* returned true never touches it. When no override selector is configured it is
\* not used on any tab, and a tab whose main path did not return true ends false.
OverrideIsFallbackOnly ==
  \A t \in DOMAIN tabRun :
    LET r == tabRun[t]
        dom == TabEnvOf(t).dom
    IN /\ OverrideClicks(r) # <<>> =>
            /\ OVERRIDE
            /\ MainFails(dom)
            /\ ~ReachedSubmitted(r)
            /\ r.acts[Len(r.acts)].el = "override"
            /\ Len(OverrideClicks(r)) = 1
       /\ r.via = "override" <=> OverrideClicks(r) # <<>>
       /\ ~MainFails(dom) => r.via = "main" /\ OverrideClicks(r) = <<>>
       /\ ~OVERRIDE /\ MainFails(dom) => ~r.outcome /\ r.via = "none"

\* With an override selector configured and its element visible, a tab whose main
\* path submitted the prompt left the element alone.
OverrideIsFallbackOnlyWitness ==
  /\ OVERRIDE
  /\ \E t \in DOMAIN tabRun :
       /\ TabEnvOf(t).dom.override = "visible"
       /\ ~MainFails(TabEnvOf(t).dom)
       /\ tabRun[t].via = "main"
       /\ tabRun[t].outcome
       /\ OverrideClicks(tabRun[t]) = <<>>

\* ------------------------------------------------------------ C26

\* The submit actions of a call, in order.
SubmitsOf(r) ==
  LET IsSubmit(a) == a \in SubmitActs
  IN SelectSeq(r.acts, IsSubmit)

\* C26: on a tab whose main prompt is visible and on which no step throws,
\* exactly one submit action is performed, as the call's last action: the click
\* on the send button when the button is visible and not disabled, otherwise one
\* Enter key press; and the tab's outcome is true.
ExactlyOneSubmit ==
  \A t \in DOMAIN tabRun :
    LET r == tabRun[t]
        dom == TabEnvOf(t).dom
    IN dom.prompt /\ ~MainFails(dom) =>
         /\ Len(SubmitsOf(r)) = 1
         /\ r.acts[Len(r.acts)] = SubmitsOf(r)[1]
         /\ SubmitsOf(r)[1] = Act("click", "sendButton", "") <=> dom.send = "enabled"
         /\ SubmitsOf(r)[1] = Act("press", "promptInput", "Enter") <=>
              dom.send \in {"hidden", "disabled"}
         /\ r.outcome
         /\ results # <<>> /\ t < Len(results) => results[t + 1]

\* A tab without a visible send button was submitted by one Enter key press and
\* no click on a send button, and its result is true.
ExactlyOneSubmitWitness ==
  \E t \in DOMAIN tabRun :
    /\ TabEnvOf(t).dom.send = "hidden"
    /\ ~MainFails(TabEnvOf(t).dom)
    /\ SubmitsOf(tabRun[t]) = <<Act("press", "promptInput", "Enter")>>
    /\ t < Len(results)
    /\ results[t + 1]

\* ------------------------------------------------------------ C27

\* The page makes the model selection fail: no dropdown button is visible, a
\* click throws, or the menu has no item for the model asked for.
SelectionFails(dom) ==
  \/ \A k \in DOMAIN dom.dropdown : dom.dropdown[k] # "visible"
  \/ dom.modelThrows # "none"
  \/ \A k \in DOMAIN dom.menu : ~HasText(dom.menu[k], ModelSelector(MODEL))

OptionClicks(r) ==
  LET OnOption(a) == a.el = "modelOption"
  IN SelectSeq(r.acts, OnOption)

\* C27: a failing model selection, an error thrown inside it included, neither
\* aborts the run nor fails the tab: the call settles, goes on to the prompt
\* sequence, and ends true when that sequence succeeds.
ModelFailureNotFatal ==
  /\ abortCause # "trigger_error"
  /\ \A t \in DOMAIN tabRun :
       LET r == tabRun[t]
           dom == TabEnvOf(t).dom
       IN SelectionFails(dom) =>
            /\ OptionClicks(r) = <<>>
            /\ dom.prompt /\ dom.throwsAt # "focus" => PromptSteps(r) # <<>>
            /\ ~MainFails(dom) => ReachedSubmitted(r) /\ r.outcome /\ r.via = "main"

\* The click on the model's menu item threw on a tab, and the prompt was still
\* typed and submitted there and the tab's result is true.
ModelFailureNotFatalWitness ==
  \E t \in DOMAIN tabRun :
    /\ TabEnvOf(t).dom.modelThrows = "option"
    /\ OptionClicks(tabRun[t]) = <<>>
    /\ ReachedSubmitted(tabRun[t])
    /\ t < Len(results)
    /\ results[t + 1]

\* ------------------------------------------------------------ C28

\* C28: whatever the order of the menu's items, the only menu item selectModel
\* clicks is the item of the model asked for (the GPT-5 Mini item when the name
\* is not one of the five), and it clicks that item whenever the dropdown opens,
\* the item is in the menu and no click throws.
ClicksRequestedModel ==
  \A t \in DOMAIN tabRun :
    LET r == tabRun[t]
        dom == TabEnvOf(t).dom
        wanted == Act("click", "modelOption", ModelSelector(MODEL))
    IN /\ \A k \in DOMAIN OptionClicks(r) : OptionClicks(r)[k] = wanted
       /\ (~SelectionFails(dom) /\ ModelSelector(MODEL) \in Range(dom.menu)) =>
            OptionClicks(r) = <<wanted>>

\* ------------------------------------------------------------ C29

\* The pages whose readiness callback has been started.
ReadyStarted == readyPending \cup readySettled

Provisioning == pc \in {"prov_tab", "prov_nav", "prov_delay"}

\* C29: the three phases do not overlap. While tabs are being provisioned no
\* readiness wait and no triggerOnPage call has started; once a readiness wait
\* has started, provisioning is over for good, with every tab opened navigated
\* and in pages, at least TABS of them, and the waits started are those of all
\* pages; once a triggerOnPage call has started, the readiness wait of every page
\* has finished.
PhasesDoNotOverlap ==
  /\ Provisioning => ReadyStarted = {} /\ promptIssued = <<>>
  /\ ReadyStarted # {} =>
       /\ ~Provisioning
       /\ navPending = {}
       /\ Issued = Range(pages)
       /\ Fx(Len(pages)) >= TABS
       /\ ReadyStarted = Range(pages)
  /\ pc = "readiness" => promptIssued = <<>> /\ inflight = {}
  /\ promptIssued # <<>> =>
       /\ pc # "readiness"
       /\ readyPending = {}
       /\ readySettled = Range(pages)
       /\ Range(promptIssued) \subseteq readySettled

\* A run of three tabs in which a triggerOnPage call is pending, after the
\* readiness waits of all three have finished, one of them with the timeout of
\* its second wait.
PhasesDoNotOverlapWitness ==
  /\ Len(pages) = 3
  /\ inflight # {}
  /\ readySettled = {0, 1, 2}
  /\ readyWarned # {}

\* ------------------------------------------------------------ C30

\* The number of triggerOnPage calls made for tab t.
CallsFor(t) == Cardinality({k \in DOMAIN promptIssued : promptIssued[k] = t})

\* C30: when the final report is printed, triggerOnPage has been called exactly
\* once for every provisioned tab and for no other page (the seed page is not
\* among the tabs the provisioning loop opens), results holds one boolean per
\* tab, and the length of results, the length of pages and TABS are equal.
EveryTabPromptedOnce ==
  report.printed =>
    /\ \A t \in Range(pages) : CallsFor(t) = 1
    /\ Range(promptIssued) = Range(pages)
    /\ Range(pages) \subseteq Issued
    /\ DOMAIN tabRun = Range(pages)
    /\ \A k \in DOMAIN results : results[k] \in BOOLEAN
    /\ Len(results) = Len(pages)
    /\ Fx(Len(pages)) = TABS

\* ------------------------------------------------------------ C31

\* The number of load-test tabs opened so far (halves, as TABS is).
TabsOpened == Fx(Cardinality(Issued))

\* C31: for every numeric --tabs, whole or not, no more than TABS tabs are ever
\* opened, exactly TABS have been opened once provisioning is over, and the final
\* report's tab count, the denominator of its success rate, is the number of tabs
\* opened, so that the rate reported is at most 100%.
OpenedTabsAreTheDenominator ==
  /\ TabsOpened <= TABS
  /\ ProvisioningDone => TabsOpened = TABS
  /\ report.printed =>
       /\ report.tabs = TabsOpened
       /\ Fx(report.okCount) <= report.tabs
       /\ report.percent <= 100

====
